---- MODULE Spec2Model ----
(***************************************************************************)
(* A model of the job matching pipeline of job_match.py: CSV rows are      *)
(* turned into job dictionaries, deduplicated, language-filtered and       *)
(* indexed, the profile is embedded and queried against the index, each    *)
(* retrieved job is curated by a language model, and the curated jobs are  *)
(* sorted and reported.                                                    *)
(*                                                                         *)
(* A Python dict is a sequence of <<key, value>> pairs in insertion order. *)
(* A Python str whose characters matter (an id, a suitability) is a        *)
(* sequence of character codes; every other text is an opaque string.      *)
(***************************************************************************)
EXTENDS Integers, Sequences, FiniteSets, TLC

VARIABLES
    pc,            \* position of the script: start, embed, profile, query, curate, sort, report, done, aborted
    rows,          \* the rows csv.DictReader yields
    jobs_list,     \* job_match.py: jobs_list
    i,             \* embed_jobs: position of `for job in jobs`
    COLLECTION,    \* the entries of the chromadb collection
    relevant_jobs, \* relevant_jobs['ids'][0]
    k,             \* position of `for Id in relevant_jobs['ids'][0]`
    final_jobs,    \* job_match.py: final_jobs
    error,         \* the uncaught exception that ended the run, or "none"
    events,        \* history: the external calls made so far, in order
    report,        \* what generate_job_listings was given to render
    fpc,           \* position of the function-level harnesses
    lst,           \* remove_exact_duplicates: argument
    unique_list,   \* remove_exact_duplicates: result
    again,         \* remove_exact_duplicates applied to its own result
    raw,           \* summary['response']
    extracted      \* the text handed to json.loads

vars == <<pc, rows, jobs_list, i, COLLECTION, relevant_jobs, k, final_jobs,
          error, events, report, fpc, lst, unique_list, again, raw, extracted>>

pipeVars == <<pc, rows, jobs_list, i, COLLECTION, relevant_jobs, k, final_jobs,
              error, events, report>>

funVars == <<fpc, lst, unique_list, again, raw, extracted>>

----------------------------------------------------------------------------
(* Bounds of the model *)

MaxRows == 3       \* rows in the CSV file
MaxLen == 3        \* records given to remove_exact_duplicates on its own
MaxRaw == 6        \* characters of a raw response given to the extraction

(* Program constants *)

N_RESULTS == 25
LANG == "en"

----------------------------------------------------------------------------
(* Python str as a sequence of character codes *)

Min(a, b) == IF a < b THEN a ELSE b

RECURSIVE StrOfNat(_)
\* str(n) for an int n >= 0: its decimal digits
StrOfNat(n) ==
    IF n < 10 THEN <<48 + n>> ELSE StrOfNat(n \div 10) \o <<48 + (n % 10)>>

IsDigits(s) == Len(s) > 0 /\ \A p \in 1..Len(s) : s[p] \in 48..57

RECURSIVE IntOfDigits(_)
IntOfDigits(s) ==
    IF s = <<>> THEN 0
    ELSE 10 * IntOfDigits(SubSeq(s, 1, Len(s) - 1)) + (s[Len(s)] - 48)

RECURSIVE StrLess(_, _)
\* s < t for two Python str: lexicographic by code point
StrLess(s, t) ==
    IF t = <<>> THEN FALSE
    ELSE IF s = <<>> THEN TRUE
    ELSE IF s[1] # t[1] THEN s[1] < t[1]
    ELSE StrLess(Tail(s), Tail(t))

----------------------------------------------------------------------------
(* Python dict as a sequence of <<key, value>> pairs *)

Keys(d) == {d[p][1] : p \in 1..Len(d)}

Has(d, key) == key \in Keys(d)

Get(d, key) == d[CHOOSE p \in 1..Len(d) : d[p][1] = key][2]

\* d[key] = value: replaces the value in place, or appends a new item
Put(d, key, value) ==
    IF Has(d, key)
    THEN [p \in 1..Len(d) |-> IF d[p][1] = key THEN <<key, value>> ELSE d[p]]
    ELSE Append(d, <<key, value>>)

\* the order of the key strings used in this model under Python's str comparison
KeyRank(key) ==
    CASE key = "Job_summary" -> 1
      [] key = "Match_summary" -> 2
      [] key = "Suitability" -> 3
      [] key = "applicants" -> 4
      [] key = "company" -> 5
      [] key = "date" -> 6
      [] key = "description" -> 7
      [] key = "id" -> 8
      [] key = "location" -> 9
      [] key = "match" -> 10
      [] key = "suitability" -> 11
      [] key = "summary" -> 12
      [] key = "title" -> 13
      [] key = "url" -> 14

RECURSIVE InsertItem(_, _)
InsertItem(sorted, item) ==
    IF sorted = <<>> THEN <<item>>
    ELSE IF KeyRank(item[1]) < KeyRank(sorted[1][1]) THEN <<item>> \o sorted
    ELSE <<sorted[1]>> \o InsertItem(Tail(sorted), item)

RECURSIVE SortedItems(_)
\* sorted(d.items()): the items ordered by key (the keys of a dict are distinct)
SortedItems(d) ==
    IF d = <<>> THEN <<>>
    ELSE InsertItem(SortedItems(SubSeq(d, 1, Len(d) - 1)), d[Len(d)])

\* tuple(d.items()), the items left in insertion order
TupleReprUnsorted(d) == d

\* tuple(sorted(d.items()))
TupleRepr(d) == SortedItems(d)

RECURSIVE DedupLoop(_, _, _)
DedupLoop(rest, seen, acc) ==
    IF rest = <<>> THEN acc
    ELSE IF TupleRepr(rest[1]) \notin seen
         THEN DedupLoop(Tail(rest), seen \cup {TupleRepr(rest[1])}, Append(acc, rest[1]))
         ELSE DedupLoop(Tail(rest), seen, acc)

remove_exact_duplicates(l) == DedupLoop(l, {}, <<>>)

----------------------------------------------------------------------------
(* The inputs: CSV rows, and what the external services answer *)

EnglishText == "We build web services in Python"
FrenchText == "Nous cherchons un developpeur"
EmptyText == ""

Descriptions == {EnglishText, FrenchText, EmptyText}

\* a row of the CSV file, as csv.DictReader yields it
RowSet ==
    [title : {"Developer"}, url : {"http://jobs/1"}, location : {"Glasgow"},
     date : {"2025-03-03"}, applicants : {"12"}, description : Descriptions,
     company : {"Acme"}]

RowSeqs == UNION {[1..n -> RowSet] : n \in 0..MaxRows}

\* langdetect.detect(text): a language code, or LangDetectException on a text
\* with no features
detect(text) ==
    CASE text = EnglishText -> "en"
      [] text = FrenchText -> "fr"
      [] text = EmptyText -> "LangDetectException"

\* any language the detector recognises passes
MatchesAnyLanguage(text) == detect(text) # "LangDetectException"

\* line 147: detect(job['description']) == LANG
MatchesLanguage(text) == detect(text) = LANG

\* a JSON value of the Suitability field: a number or a string
JInt(n) == [type |-> "int", n |-> n, s |-> <<>>]
JStr(s) == [type |-> "str", n |-> 0, s |-> s]

SuitabilityValues ==
    {JInt(0), JInt(4), JInt(9), JInt(10), JStr(<<48, 53>>), JStr(<<97, 98, 99>>)}

\* int(v): the value, or ValueError on a str that is no decimal numeral
PyInt(v) ==
    IF v.type = "int" THEN [ok |-> TRUE, val |-> v.n]
    ELSE IF IsDigits(v.s) THEN [ok |-> TRUE, val |-> IntOfDigits(v.s)]
    ELSE [ok |-> FALSE, val |-> 0]

\* str(v)
PyStr(v) == IF v.type = "int" THEN StrOfNat(v.n) ELSE v.s

\* what json.loads makes of the extracted text: an exception, or an object
NoResponse == [parsed |-> FALSE, obj |-> <<>>]

LLMResponses ==
    {NoResponse}
    \cup {[parsed |-> TRUE,
           obj |-> <<<<"Suitability", JInt(3)>>, <<"Job_summary", "a">>>>]}
    \cup {[parsed |-> TRUE,
           obj |-> <<<<"Job_summary", "a">>, <<"Match_summary", "b">>>>]}
    \cup {[parsed |-> TRUE,
           obj |-> <<<<"Suitability", v>>, <<"Job_summary", "a">>,
                     <<"Match_summary", "b">>>>] : v \in SuitabilityValues}

----------------------------------------------------------------------------
(* process_jobs_csv and the lookups of the script *)

\* the job dict built for row number job_id
JobOfRow(job_id, row) ==
    <<<<"id", StrOfNat(job_id)>>, <<"title", row.title>>, <<"url", row.url>>,
      <<"location", row.location>>, <<"date", row.date>>,
      <<"applicants", row.applicants>>, <<"description", row.description>>,
      <<"company", row.company>>>>

process_jobs_csv(rs) == [n \in 1..Len(rs) |-> JobOfRow(n, rs[n])]

\* next((d for d in jobs_list if d.get("id") == Id), None): the position, 0 for None
JobIndex(jobs, Id) ==
    IF \E p \in 1..Len(jobs) : Has(jobs[p], "id") /\ Get(jobs[p], "id") = Id
    THEN CHOOSE p \in 1..Len(jobs) :
            /\ Has(jobs[p], "id") /\ Get(jobs[p], "id") = Id
            /\ \A q \in 1..(p - 1) : ~(Has(jobs[q], "id") /\ Get(jobs[q], "id") = Id)
    ELSE 0

NoError == [exc |-> "none", at |-> "none"]

Event(op, id) == [op |-> op, id |-> id, resp |-> NoResponse]

Abort(exc, at) ==
    /\ pc' = "aborted"
    /\ error' = [exc |-> exc, at |-> at]

----------------------------------------------------------------------------
(* The try block of the curation loop *)

\* the filter with >= in place of >
IsSuitableOrZero(n) == n >= 0

\* an except clause that names json.JSONDecodeError only
ExceptCatchesJSONOnly(exc) == exc = "JSONDecodeError"

\* the filter of the curation loop
IsSuitable(n) == n > 0

\* `except Exception` catches whatever the try block raises
ExceptCatches(exc) == TRUE

\* What the try block does with one response: the exception it raises ("none"
\* when it raises none), the job as the block leaves it, and whether the job
\* was appended to final_jobs.
TryBlock(job, resp) ==
    IF ~resp.parsed
    THEN [exc |-> "JSONDecodeError", job |-> job, appended |-> FALSE]
    ELSE IF ~Has(resp.obj, "Suitability")
    THEN [exc |-> "KeyError", job |-> job, appended |-> FALSE]
    ELSE IF ~PyInt(Get(resp.obj, "Suitability")).ok
    THEN [exc |-> "ValueError", job |-> job, appended |-> FALSE]
    ELSE IF ~IsSuitable(PyInt(Get(resp.obj, "Suitability")).val)
    THEN [exc |-> "none", job |-> job, appended |-> FALSE]
    ELSE IF ~Has(resp.obj, "Job_summary")
    THEN [exc |-> "KeyError", job |-> job, appended |-> FALSE]
    ELSE IF ~Has(resp.obj, "Match_summary")
    THEN [exc |-> "KeyError",
          job |-> Put(job, "summary", Get(resp.obj, "Job_summary")),
          appended |-> FALSE]
    ELSE [exc |-> "none",
          job |-> Put(Put(Put(job, "summary", Get(resp.obj, "Job_summary")),
                          "match", Get(resp.obj, "Match_summary")),
                      "suitability", PyStr(Get(resp.obj, "Suitability"))),
          appended |-> TRUE]

----------------------------------------------------------------------------
(* sorted(final_jobs, key=lambda d: d.get("suitability", 2), reverse=True) *)

HasKey(d) == Has(d, "suitability")

\* the str keys of the jobs are compared as str
KeyLess(a, b) == StrLess(Get(a, "suitability"), Get(b, "suitability"))

RECURSIVE InsertDescending(_, _)
\* x goes after every element whose key is not less than its own: the sort is
\* stable, and reverse=True keeps the order of equal keys
InsertDescending(sorted, x) ==
    IF sorted = <<>> THEN <<x>>
    ELSE IF KeyLess(sorted[1], x) THEN <<x>> \o sorted
    ELSE <<sorted[1]>> \o InsertDescending(Tail(sorted), x)

RECURSIVE SortedDescending(_)
SortedDescending(jobs) ==
    IF jobs = <<>> THEN <<>>
    ELSE InsertDescending(SortedDescending(SubSeq(jobs, 1, Len(jobs) - 1)),
                          jobs[Len(jobs)])

\* a job without the key gets the int 2, and Python refuses to order int and str
SortRaises(jobs) ==
    /\ \E p \in 1..Len(jobs) : ~HasKey(jobs[p])
    /\ \E p \in 1..Len(jobs) : HasKey(jobs[p])

----------------------------------------------------------------------------
(* The script, top to bottom *)

FunIdle ==
    /\ fpc = "idle" /\ lst = <<>> /\ unique_list = <<>> /\ again = <<>>
    /\ raw = <<>> /\ extracted = <<>>

Init ==
    /\ pc = "start"
    /\ rows \in RowSeqs
    /\ jobs_list = <<>>
    /\ i = 1
    /\ COLLECTION = {}
    /\ relevant_jobs = <<>>
    /\ k = 1
    /\ final_jobs = <<>>
    /\ error = NoError
    /\ events = <<>>
    /\ report = <<>>
    /\ FunIdle

\* lines 191-192, and the call of embed_jobs
LoadJobs ==
    /\ pc = "start"
    /\ jobs_list' = remove_exact_duplicates(process_jobs_csv(rows))
    /\ pc' = "embed"
    /\ i' = 1
    /\ UNCHANGED <<rows, COLLECTION, relevant_jobs, k, final_jobs, error, events,
                   report, funVars>>

job == jobs_list[i]

\* embed_jobs, one job: detect raises, and nothing catches it
EmbedDetectRaises ==
    /\ pc = "embed" /\ i <= Len(jobs_list)
    /\ detect(Get(job, "description")) = "LangDetectException"
    /\ events' = Append(events, Event("detect", Get(job, "id")))
    /\ Abort("LangDetectException", "embed_jobs")
    /\ UNCHANGED <<rows, jobs_list, i, COLLECTION, relevant_jobs, k, final_jobs,
                   report, funVars>>

\* embed_jobs, one job: the description is in another language
EmbedSkip ==
    /\ pc = "embed" /\ i <= Len(jobs_list)
    /\ detect(Get(job, "description")) # "LangDetectException"
    /\ ~MatchesLanguage(Get(job, "description"))
    /\ events' = Append(events, Event("detect", Get(job, "id")))
    /\ i' = i + 1
    /\ UNCHANGED <<pc, rows, jobs_list, COLLECTION, relevant_jobs, k, final_jobs,
                   error, report, funVars>>

\* embed_jobs, one job: ollama.embeddings raises in create_embedding, and
\* nothing catches it
EmbedRaises ==
    /\ pc = "embed" /\ i <= Len(jobs_list)
    /\ MatchesLanguage(Get(job, "description"))
    /\ events' = events \o <<Event("detect", Get(job, "id")),
                             Event("embed_fail", Get(job, "id"))>>
    /\ Abort("ResponseError", "embed_jobs")
    /\ UNCHANGED <<rows, jobs_list, i, COLLECTION, relevant_jobs, k, final_jobs,
                   report, funVars>>

\* embed_jobs, one job: embedded, and stored unless COLLECTION.add raises
\* (store_embeddings catches that and returns False)
EmbedStore ==
    /\ pc = "embed" /\ i <= Len(jobs_list)
    /\ MatchesLanguage(Get(job, "description"))
    /\ \E stored \in BOOLEAN :
          /\ COLLECTION' =
                IF stored
                THEN COLLECTION \cup {[id |-> Get(job, "id"),
                                       document |-> Get(job, "description")]}
                ELSE COLLECTION
          /\ events' = events \o <<Event("detect", Get(job, "id")),
                                   Event("embed", Get(job, "id")),
                                   Event(IF stored THEN "store" ELSE "store_fail",
                                         Get(job, "id"))>>
    /\ i' = i + 1
    /\ UNCHANGED <<pc, rows, jobs_list, relevant_jobs, k, final_jobs, error,
                   report, funVars>>

\* embed_jobs returns; lines 205-206: the profile is embedded, or the run ends
EmbedProfile ==
    /\ pc = "embed" /\ i > Len(jobs_list)
    /\ \E ok \in BOOLEAN :
          IF ok
          THEN /\ events' = Append(events, Event("embed_profile", <<>>))
               /\ pc' = "query"
               /\ error' = error
          ELSE /\ events' = Append(events, Event("embed_profile_fail", <<>>))
               /\ Abort("ResponseError", "profile")
    /\ UNCHANGED <<rows, jobs_list, i, COLLECTION, relevant_jobs, k, final_jobs,
                   report, funVars>>

\* the orders in which a query can return n of the ids stored
QueryResults(n) ==
    {ids \in [1..n -> {e.id : e \in COLLECTION}] :
        \A p, q \in 1..n : p # q => ids[p] # ids[q]}

\* line 209: the ids of the nearest entries, at most N_RESULTS, nearest first
Query ==
    /\ pc = "query"
    /\ relevant_jobs' \in QueryResults(Min(N_RESULTS, Cardinality(COLLECTION)))
    /\ events' = Append(events, Event("query", <<>>))
    /\ k' = 1
    /\ pc' = "curate"
    /\ UNCHANGED <<rows, jobs_list, i, COLLECTION, final_jobs, error, report,
                   funVars>>

Id == relevant_jobs[k]

\* lines 215-223: the job is not in jobs_list (current_job is None), or
\* ollama.generate raises; neither is inside the try block
CurateRaises ==
    /\ pc = "curate" /\ k <= Len(relevant_jobs)
    /\ IF JobIndex(jobs_list, Id) = 0
       THEN /\ Abort("TypeError", "curate")
            /\ events' = events
       ELSE /\ Abort("ResponseError", "curate")
            /\ events' = Append(events, Event("generate_fail", Id))
    /\ UNCHANGED <<rows, jobs_list, i, COLLECTION, relevant_jobs, k, final_jobs,
                   report, funVars>>

\* lines 215-234: one job is curated
Curate ==
    /\ pc = "curate" /\ k <= Len(relevant_jobs)
    /\ JobIndex(jobs_list, Id) # 0
    /\ \E resp \in LLMResponses :
          LET n == JobIndex(jobs_list, Id)
              out == TryBlock(jobs_list[n], resp)
          IN  /\ events' = Append(events, [op |-> "generate", id |-> Id, resp |-> resp])
              /\ jobs_list' = [jobs_list EXCEPT ![n] = out.job]
              /\ final_jobs' = IF out.appended THEN Append(final_jobs, out.job)
                               ELSE final_jobs
              /\ IF out.exc = "none" \/ ExceptCatches(out.exc)
                 THEN /\ k' = k + 1
                      /\ pc' = pc
                      /\ error' = error
                 ELSE /\ k' = k
                      /\ Abort(out.exc, "curate")
    /\ UNCHANGED <<rows, i, COLLECTION, relevant_jobs, report, funVars>>

\* line 237
Sort ==
    /\ pc = "curate" /\ k > Len(relevant_jobs)
    /\ IF SortRaises(final_jobs)
       THEN /\ Abort("TypeError", "sort")
            /\ final_jobs' = final_jobs
       ELSE /\ final_jobs' = SortedDescending(final_jobs)
            /\ pc' = "report"
            /\ error' = error
    /\ UNCHANGED <<rows, jobs_list, i, COLLECTION, relevant_jobs, k, events,
                   report, funVars>>

\* what the report shows of one job
Listing(d) ==
    [title |-> Get(d, "title"), suitability |-> Get(d, "suitability"),
     summary |-> Get(d, "summary"), match |-> Get(d, "match")]

\* lines 238-239
Report ==
    /\ pc = "report"
    /\ report' = [p \in 1..Len(final_jobs) |-> Listing(final_jobs[p])]
    /\ pc' = "done"
    /\ UNCHANGED <<rows, jobs_list, i, COLLECTION, relevant_jobs, k, final_jobs,
                   error, events, funVars>>

Next ==
    \/ LoadJobs
    \/ EmbedDetectRaises
    \/ EmbedSkip
    \/ EmbedRaises
    \/ EmbedStore
    \/ EmbedProfile
    \/ Query
    \/ CurateRaises
    \/ Curate
    \/ Sort
    \/ Report

Spec == Init /\ [][Next]_vars

----------------------------------------------------------------------------
(* remove_exact_duplicates on its own, on records whose fields come in any order *)

PipeIdle ==
    /\ pc = "idle" /\ rows = <<>> /\ jobs_list = <<>> /\ i = 1 /\ COLLECTION = {}
    /\ relevant_jobs = <<>> /\ k = 1 /\ final_jobs = <<>> /\ error = NoError
    /\ events = <<>> /\ report = <<>>

RecordSet ==
    {<<<<"title", "Developer">>, <<"company", "Acme">>>>,
     <<<<"company", "Acme">>, <<"title", "Developer">>>>,
     <<<<"title", "Tester">>, <<"company", "Acme">>>>,
     <<<<"company", "Acme">>, <<"title", "Tester">>>>,
     <<<<"title", "Developer">>>>}

RecordSeqs == UNION {[1..n -> RecordSet] : n \in 0..MaxLen}

InitDedup ==
    /\ PipeIdle
    /\ fpc = "call"
    /\ lst \in RecordSeqs
    /\ unique_list = <<>> /\ again = <<>> /\ raw = <<>> /\ extracted = <<>>

DedupCall ==
    /\ fpc = "call"
    /\ unique_list' = remove_exact_duplicates(lst)
    /\ fpc' = "returned"
    /\ UNCHANGED <<pipeVars, lst, again, raw, extracted>>

DedupAgain ==
    /\ fpc = "returned"
    /\ again' = remove_exact_duplicates(unique_list)
    /\ fpc' = "done"
    /\ UNCHANGED <<pipeVars, lst, unique_list, raw, extracted>>

NextDedup == DedupCall \/ DedupAgain

SpecDedup == InitDedup /\ [][NextDedup]_vars

----------------------------------------------------------------------------
(* line 226: re.sub(r"^[^{]*|[^}]*$", "", summary['response']) *)

Alphabet == {"{", "}", "a"}

RawTexts == UNION {[1..n -> Alphabet] : n \in 0..MaxRaw}

\* the length of the match of ^[^{]* : the characters before the first "{"
LeadingLen(s) ==
    IF \E p \in 1..Len(s) : s[p] = "{"
    THEN (CHOOSE p \in 1..Len(s) : s[p] = "{" /\ \A q \in 1..(p - 1) : s[q] # "{") - 1
    ELSE Len(s)

\* the characters after the first "}", as a pattern cut at the first brace would match
TrailingLenFirstClose(s) ==
    IF \E p \in 1..Len(s) : s[p] = "}"
    THEN Len(s) - (CHOOSE p \in 1..Len(s) :
                      s[p] = "}" /\ \A q \in 1..(p - 1) : s[q] # "}")
    ELSE Len(s)

\* the length of the match of [^}]*$ : the characters after the last "}"
TrailingLen(s) ==
    IF \E p \in 1..Len(s) : s[p] = "}"
    THEN Len(s) - (CHOOSE p \in 1..Len(s) :
                      s[p] = "}" /\ \A q \in (p + 1)..Len(s) : s[q] # "}")
    ELSE Len(s)

\* both matches are replaced by "": the second alternative is tried from the
\* end of the first match on
ExtractJSON(s) ==
    LET rest == SubSeq(s, LeadingLen(s) + 1, Len(s))
    IN  SubSeq(rest, 1, Len(rest) - TrailingLen(rest))

InitExtract ==
    /\ PipeIdle
    /\ fpc = "call"
    /\ raw \in RawTexts
    /\ extracted = <<>> /\ lst = <<>> /\ unique_list = <<>> /\ again = <<>>

Extract ==
    /\ fpc = "call"
    /\ extracted' = ExtractJSON(raw)
    /\ fpc' = "extracted"
    /\ UNCHANGED <<pipeVars, lst, unique_list, again, raw>>

NextExtract == Extract

SpecExtract == InitExtract /\ [][NextExtract]_vars

----------------------------------------------------------------------------
(* Vocabulary of the properties *)

Ranked == pc \in {"report", "done"}

IdsOf(jobs) == {Get(jobs[p], "id") : p \in 1..Len(jobs)}

Generated == {p \in 1..Len(events) : events[p].op = "generate"}

GeneratedIds == {events[p].id : p \in Generated}

\* the job of jobs_list with the given id
JobWithId(id) == jobs_list[JobIndex(jobs_list, id)]

EnrichmentFields == {"summary", "match", "suitability"}

ResponseFields == {"Suitability", "Job_summary", "Match_summary"}

\* the response is a JSON object with the three fields and a Suitability that
\* coerces to an integer
Validates(resp) ==
    /\ resp.parsed
    /\ ResponseFields \subseteq Keys(resp.obj)
    /\ PyInt(Get(resp.obj, "Suitability")).ok

Score(resp) == PyInt(Get(resp.obj, "Suitability")).val

\* the number a stored suitability denotes
Numeric(d) == IntOfDigits(Get(d, "suitability"))

\* the seven fields of a CSV row
RowFields ==
    {"title", "url", "location", "date", "applicants", "description", "company"}

SameContent(a, b) == \A f \in RowFields : Get(a, f) = Get(b, f)

\* this step is a curation call answered by e
CurationStep(e) ==
    /\ pc = "curate"
    /\ events' = Append(events, e)
    /\ e.op = "generate"

----------------------------------------------------------------------------
(* C1: the ranked output is ordered descending by the numeric value of the  *)
(* suitability, for every value that int(Suitability) > 0 lets through.      *)
C1_RankedDescendingNumeric ==
    Ranked =>
        \A p \in 1..(Len(final_jobs) - 1) :
            Numeric(final_jobs[p]) >= Numeric(final_jobs[p + 1])

(* C2: a retrieved job is in final_jobs exactly when its response parses as  *)
(* an object with the three fields and a Suitability that coerces to an      *)
(* integer > 0; every retrieved id has been curated when the jobs are        *)
(* ranked, so jobs scoring 0 and jobs that failed to parse are both absent   *)
(* from the ranked output.                                                   *)
C2_IncludedIffValidPositive ==
    /\ \A p \in Generated :
          (events[p].id \in IdsOf(final_jobs))
              <=> (Validates(events[p].resp) /\ Score(events[p].resp) > 0)
    /\ IdsOf(final_jobs) \subseteq GeneratedIds
    /\ Ranked => \A q \in 1..Len(relevant_jobs) : relevant_jobs[q] \in GeneratedIds

C2_Witness ==
    /\ pc = "done"
    /\ \E p \in Generated : Validates(events[p].resp) /\ Score(events[p].resp) > 0
    /\ \E p \in Generated : Validates(events[p].resp) /\ Score(events[p].resp) = 0
    /\ \E p \in Generated : ~Validates(events[p].resp)
    /\ Len(final_jobs) = 1

(* C3: a response that fails parsing or validation drops that job only: the  *)
(* step raises nothing out of the loop, leaves final_jobs as it was and      *)
(* moves on to the next candidate (or to the sort after the last one).       *)
C3_ParseFailureContinues ==
    [][\A e \in {[op |-> "generate", id |-> x, resp |-> r] :
                    x \in IdsOf(jobs_list), r \in LLMResponses} :
          (CurationStep(e) /\ ~Validates(e.resp)) =>
              /\ pc' = "curate"
              /\ error' = NoError
              /\ k' = k + 1
              /\ final_jobs' = final_jobs]_vars

C3_Witness ==
    /\ pc = "done"
    /\ \E p, q \in Generated :
          /\ p < q
          /\ ~Validates(events[p].resp)
          /\ events[p].resp.parsed
          /\ Validates(events[q].resp) /\ Score(events[q].resp) > 0
          /\ events[q].id \in IdsOf(final_jobs)

(* C4: a job whose description the language detector raises on is skipped    *)
(* (not embedded, not indexed) and the run goes on to the next job.          *)
C4_DetectFailureSkipsJob ==
    [][(/\ pc = "embed"
        /\ i <= Len(jobs_list)
        /\ detect(Get(jobs_list[i], "description")) = "LangDetectException")
          => (/\ pc' = "embed"
              /\ i' = i + 1
              /\ COLLECTION' = COLLECTION
              /\ error' = NoError)]_vars

(* C5: when the embedding call fails for one job, only that job is skipped:  *)
(* the run goes on to the next job of the corpus.                            *)
C5_EmbeddingFailureSkipsJob ==
    [][(/\ pc = "embed"
        /\ Len(events') > Len(events)
        /\ events'[Len(events')].op = "embed_fail")
          => (/\ pc' = "embed"
              /\ i' = i + 1
              /\ COLLECTION' = COLLECTION
              /\ error' = NoError)]_vars


----------------------------------------------------------------------------
(* Reference notions for remove_exact_duplicates *)

\* the field/value pairs of a record, whatever their order
ItemSet(d) == {d[p] : p \in 1..Len(d)}

SameRecord(a, b) == ItemSet(a) = ItemSet(b)

\* the positions of l holding the first occurrence of a record
FirstPositions(l) ==
    {p \in 1..Len(l) : \A q \in 1..(p - 1) : ~SameRecord(l[q], l[p])}

RECURSIVE Pick(_, _, _)
\* the elements of l at the positions in ps, from position p on, in order
Pick(l, ps, p) ==
    IF p > Len(l) THEN <<>>
    ELSE IF p \in ps THEN <<l[p]>> \o Pick(l, ps, p + 1)
    ELSE Pick(l, ps, p + 1)

FirstOccurrences(l) == Pick(l, FirstPositions(l), 1)

(* C6: remove_exact_duplicates returns the first occurrence of each distinct *)
(* record (equal = same set of field/value pairs, whatever the field order), *)
(* in input order; the result is no longer than the input, holds no two      *)
(* equal records, and the function leaves its own result unchanged.          *)
C6_DedupFirstOccurrences ==
    /\ fpc \in {"returned", "done"} =>
          /\ unique_list = FirstOccurrences(lst)
          /\ Len(unique_list) <= Len(lst)
          /\ \A p, q \in 1..Len(unique_list) :
                p # q => ~SameRecord(unique_list[p], unique_list[q])
    /\ fpc = "done" => again = unique_list

C6_Witness ==
    /\ fpc = "done"
    /\ Len(unique_list) = 2
    /\ \E p, q \in 1..Len(lst) :
          p < q /\ lst[p] # lst[q] /\ SameRecord(lst[p], lst[q])

(* C7: for a raw response P + J + S, where J begins with "{" and ends with   *)
(* "}", P holds no "{" and S holds no "}", the extraction yields exactly J.   *)
C7_ExtractionYieldsObject ==
    fpc = "extracted" =>
        \A a \in 0..Len(raw) : \A b \in (a + 2)..Len(raw) :
            (/\ raw[a + 1] = "{"
             /\ raw[b] = "}"
             /\ \A p \in 1..a : raw[p] # "{"
             /\ \A p \in (b + 1)..Len(raw) : raw[p] # "}")
                => extracted = SubSeq(raw, a + 1, b)

C7_Witness ==
    /\ fpc = "extracted"
    /\ raw = <<"a", "{", "}", "{", "}", "a">>
    /\ extracted = <<"{", "}", "{", "}">>

(* C8: every curation call is on a job detected as the target language and   *)
(* stored in the index, and comes after the whole corpus was filtered and    *)
(* indexed and after the query returned; a job the language filter skipped   *)
(* is never curated and never ranked.                                        *)
C8_CurationOnlyOfIndexedJobs ==
    /\ \A p \in Generated :
          /\ detect(Get(JobWithId(events[p].id), "description")) = LANG
          /\ \E e \in COLLECTION : e.id = events[p].id
          /\ \E q \in 1..(p - 1) : events[q] = Event("store", events[p].id)
          /\ \E q \in 1..(p - 1) : events[q].op = "query"
          /\ \A n \in 1..Len(jobs_list) :
                \E q \in 1..(p - 1) :
                    events[q] = Event("detect", Get(jobs_list[n], "id"))
          /\ \A q \in (p + 1)..Len(events) :
                events[q].op \in {"generate", "generate_fail"}
    /\ \A n \in 1..Len(final_jobs) :
          /\ detect(Get(final_jobs[n], "description")) = LANG
          /\ Get(final_jobs[n], "id") \in GeneratedIds

C8_Witness ==
    /\ pc = "done"
    /\ \E n \in 1..Len(jobs_list) :
          /\ Get(jobs_list[n], "description") = FrenchText
          /\ Get(jobs_list[n], "id") \notin GeneratedIds
    /\ Cardinality(GeneratedIds) = 2
    /\ Len(final_jobs) = 1

(* C9: every job entering the ranker has summary, match and suitability set, *)
(* and its suitability denotes an integer between 0 and 5.                   *)
C9_RankedJobsScoredZeroToFive ==
    \A n \in 1..Len(final_jobs) :
        /\ EnrichmentFields \subseteq Keys(final_jobs[n])
        /\ IsDigits(Get(final_jobs[n], "suitability"))
        /\ Numeric(final_jobs[n]) \in 0..5

(* C10: after process_jobs_csv and remove_exact_duplicates, no two jobs      *)
(* given to embed_jobs agree on all seven row fields.                        *)
C10_NoTwoJobsWithSameContent ==
    pc # "start" =>
        \A p, q \in 1..Len(jobs_list) :
            p # q => ~SameContent(jobs_list[p], jobs_list[q])

====
